---- MODULE Spec2Model ----
(***************************************************************************)
(* A model of unesco.py: generate_dataset_and_showcase for one country,    *)
(* with its nested load_safely, create_resource and download_df, and the   *)
(* remote service as the environment that answers each download.           *)
(***************************************************************************)
EXTENDS Integers, Sequences, FiniteSets, TLC

\* ------------------------------------------------------------------ bounds
\* Number of distinct calendar years the service may report for an endpoint.
MaxYears == 3
\* Number of quota-exceeded answers the service gives for one URL before it
\* recovers.
MaxQuota == 1
\* Number of dimensions a structure document may list.
MaxDims == 2
\* Number of rows of a table given to process_df.
MaxRows == 2

\* ------------------------------------------------------ program constants
MAX_OBSERVATIONS == 1800
EARLIEST_SENTINEL == 10000
LATEST_SENTINEL == 0

\* --------------------------------------------------------------- inputs
Years == {2010 + k : k \in 1..MaxYears}
\* actualObs values: an empty year, counts that add up to the ceiling exactly
\* (900 + 900), and a year that reaches the ceiling alone.
CountValues == {0, 900, 1800}
\* Keys of endpoints_metadata; the indicator of an endpoint is its structure
\* name, distinct per endpoint.
EndpointIds == {"DEM_ECO", "EDU_FINANCE"}
\* The key orders an endpoints mapping may have: sequences of distinct ids.
EndpointOrders ==
    {o \in UNION {[1..n -> EndpointIds] : n \in 0..Cardinality(EndpointIds)} :
        \A i, j \in DOMAIN o : i # j => o[i] # o[j]}
\* Every year -> count mapping a TIME_PERIOD dimension may carry.
TimePeriods == UNION {[Y -> CountValues] : Y \in SUBSET Years}

\* Country names, as sequences of characters.
NameWBsp     == <<"W", "B", ":", " ", "A">>
NameWBnosp   == <<"W", "B", ":", "A", "f">>
NameSDG      == <<"S", "D", "G", ":", " ", "A">>
NameMDG      == <<"M", "D", "G", ":", " ", "A">>
NameUIS      == <<"U", "I", "S", ":", " ", "A">>
NameEFA      == <<"E", "F", "A", ":", " ", "A">>
NameGEMR     == <<"G", "E", "M", "R", ":", " ", "A">>
NameAIMS     == <<"A", "I", "M", "S", ":", " ", "A">>
NameUNICEF   == <<"U", "N", "I", "C", "E", "F", ":", " ", "A">>
NameUNESCO   == <<"U", "N", "E", "S", "C", "O", ":", " ", "A">>
NameArg      == <<"A", "r", "g">>
CountryNames == {NameWBsp, NameWBnosp, NameSDG, NameMDG, NameUIS, NameEFA,
                 NameGEMR, NameAIMS, NameUNICEF, NameUNESCO, NameArg}

\* What downloader.download does with one request: a response, or a
\* DownloadError whose cause text is one of these.
Outcomes == {"ok", "Quota Exceeded", "Not Found", "Server Error"}

VARIABLES
    pc,               \* position in generate_dataset_and_showcase
    countryname,      \* countrydata['names'][0]['value']
    countryiso3,      \* the ISO3 code of lines 136-138: "unset" | "None" | a code
    merge_resources,  \* the merge_resources argument
    endpoints,        \* keys of the endpoints mapping, in insertion order
    todo,             \* endpoints the for loop of line 183 has still to visit
    endpoint,         \* the loop variable of line 183 ("" before the loop)
    caller,           \* which call of load_safely is running: structure | chunk;
                      \* "file" while line 251 runs process_df
    outcome,          \* what the last downloader.download did
    quotaLeft,        \* quota-exceeded answers the service still gives for the
                      \* URL load_safely is asking for
    response,         \* what load_safely returned: "response" | "None" | "unset"
    time_periods,     \* year -> actualObs of the current endpoint
    years,            \* sorted(time_periods.keys(), reverse=True)
    idx,              \* position of the for loop of line 234 in years
    obs_count, start_year, end_year,
    earliest_year, latest_year,
    df,               \* chunks whose csv was appended to df; <<>> is None
    resources,        \* dataset.get_resources()
    year_range,       \* what set_dataset_year_range received; <<>> when unset
    result,           \* the returned pair <<dataset, showcase>>
    path,             \* the return statement taken (or the exception raised)
    url,              \* the argument of the running load_safely call
    requested,        \* history: downloader.download was called at least once
    emitted,          \* history: chunks create_resource/download_df ran for
    failed,           \* history: some chunk download of the endpoint was not found
    seen,             \* history: <<least, greatest>> year of all mappings received
                      \* so far; <<>> when none carried a year
    structure_log,    \* history: endpoints whose structure was asked for, in order
    metadata,         \* endpoints_metadata as get_endpoints_metadata builds it
    dims_seen,        \* history: the dimension lists get_endpoints_metadata received
    templates,        \* endpoints_metadata as generate_dataset_and_showcase
                      \* receives it: endpoint id -> URL template
    table,            \* df of process_df
    given,            \* history: the table process_df was called with
    store_code,       \* the store_code argument of process_df
    split_in,         \* history: the table split_columns_df was called with
    expanded,         \* history: what expand_time_columns_df returned
    origin,           \* history: <<original row, year column>> of every row
                      \* of table since expand_time_columns_df
    countriesdata     \* what get_countriesdata returned

vars == <<pc, countryname, countryiso3, merge_resources, endpoints, todo, endpoint, caller,
          outcome, quotaLeft, response, url, time_periods, years, idx, obs_count,
          start_year, end_year, earliest_year, latest_year, df, resources,
          year_range, result, path, requested, emitted, failed, seen,
          structure_log, metadata, dims_seen, templates, table, given,
          store_code, split_in, expanded, origin, countriesdata>>

\* The variables of process_df.
normVars == <<table, given, store_code, split_in, expanded, origin>>

\* Variables generate_dataset_and_showcase does not write.
otherVars == <<metadata, dims_seen, templates, countriesdata, normVars>>

\* ------------------------------------------------------------ helpers
Max(S) == CHOOSE x \in S : \A y \in S : y <= x
Min(S) == CHOOSE x \in S : \A y \in S : x <= y

\* s[:n] of Python
Prefix(s, n) == SubSeq(s, 1, IF Len(s) < n THEN Len(s) ELSE n)

\* sorted(S, reverse=True)
RECURSIVE SortedDesc(_)
SortedDesc(S) == IF S = {} THEN <<>> ELSE <<Max(S)>> \o SortedDesc(S \ {Max(S)})

\* sorted(endpoints_metadata): ascending string order of the endpoint ids
EndpointRank(e) == IF e = "DEM_ECO" THEN 1 ELSE 2
RECURSIVE SortedEndpoints(_)
SortedEndpoints(S) ==
    IF S = {} THEN <<>>
    ELSE LET m == CHOOSE x \in S : \A y \in S : EndpointRank(x) <= EndpointRank(y)
         IN <<m>> \o SortedEndpoints(S \ {m})

\* The keys of a mapping given by its key order.
Keys(eps) == {eps[i] : i \in DOMAIN eps}

\* Mutant of SortedKeys: the mapping is walked in insertion order.
InsertionOrder(eps) == eps

\* sorted(endpoints) in line 43, sorted(endpoints_metadata) in line 183
SortedKeys(eps) == SortedEndpoints(Keys(eps))

\* ------------------------------------------------- lines 130-161: set-up
\* Mutant of IsIgnored: the five-character prefixes are not tested.
IsIgnoredNoFive(name) ==
    \/ Prefix(name, 4) \in {<<"W", "B", ":", " ">>, <<"S", "D", "G", ":">>,
                            <<"M", "D", "G", ":">>, <<"U", "I", "S", ":">>,
                            <<"E", "F", "A", ":">>}
    \/ Prefix(name, 7) \in {<<"U", "N", "I", "C", "E", "F", ":">>,
                            <<"U", "N", "E", "S", "C", "O", ":">>}

\* unesco.py:132-133, the test that a name is a non-country entry
IsIgnored(name) ==
    \/ Prefix(name, 4) \in {<<"W", "B", ":", " ">>, <<"S", "D", "G", ":">>,
                            <<"M", "D", "G", ":">>, <<"U", "I", "S", ":">>,
                            <<"E", "F", "A", ":">>}
    \/ Prefix(name, 5) \in {<<"G", "E", "M", "R", ":">>, <<"A", "I", "M", "S", ":">>}
    \/ Prefix(name, 7) \in {<<"U", "N", "I", "C", "E", "F", ":">>,
                            <<"U", "N", "E", "S", "C", "O", ":">>}

\* endpoints_metadata[endpoint][0]
Indicator(e) == IF e = "DEM_ECO" THEN "Demographic and socio-economic"
                ELSE "Education: Financial resources"

\* '%sformat=csv' % structure_url, then '&startPeriod=%d&endPeriod=%d'
StructureUrl(e) == <<e, "structureonly">>
CsvUrl(e, s, t) == <<e, "csv", s, t>>

\* The dictionary create_resource builds (lines 212-218).
LinkResource(e, s, t) ==
    [name |-> <<Indicator(e), s, t>>, format |-> "csv", url |-> CsvUrl(e, s, t),
     file |-> <<>>]

\* The Resource of lines 250-257.
FileResource(e, cname) ==
    [name |-> <<Indicator(e)>>, format |-> "csv", url |-> <<>>,
     file |-> <<"UNESCO", cname, Indicator(e)>>]

\* dataset.add_update_resource: a resource of the same name is updated in
\* place, any other is appended.
AddUpdateResource(rs, r) ==
    IF \E i \in 1..Len(rs) : rs[i].name = r.name
    THEN [i \in 1..Len(rs) |-> IF rs[i].name = r.name THEN r ELSE rs[i]]
    ELSE Append(rs, r)

Return(d, s, how) ==
    /\ result' = <<d, s>>
    /\ path' = how
    /\ pc' = "done"

Raise(what) ==
    /\ path' = what
    /\ pc' = "raised"
    /\ UNCHANGED result

\* lines 132-135
SkipIgnored ==
    /\ pc = "start"
    /\ IsIgnored(countryname)
    /\ Return("None", "None", "ignored")
    /\ UNCHANGED <<countryname, countryiso3, merge_resources, endpoints, todo, endpoint,
                   caller, outcome, quotaLeft, response, url, time_periods,
                   years, idx, obs_count, start_year, end_year, earliest_year,
                   latest_year, df, resources, year_range, requested, emitted,
                   failed, seen>>
    /\ UNCHANGED <<structure_log, otherVars>>

\* What the country-code lookups may answer.
Iso3Answers == {"None", "ARG"}

\* lines 136-138: the direct lookup, and the fuzzy one only when it fails
ResolveIso3(direct, fuzzy) == IF direct = "None" THEN fuzzy ELSE direct

\* lines 136-141: neither get_iso3_from_iso2 nor the fuzzy match finds a code
SkipNoIso3 ==
    /\ pc = "start"
    /\ ~IsIgnored(countryname)
    /\ \E direct \in Iso3Answers, fuzzy \in Iso3Answers :
        /\ ResolveIso3(direct, fuzzy) = "None"
        /\ countryiso3' = "None"
    /\ Return("None", "None", "no_iso3")
    /\ UNCHANGED <<countryname, merge_resources, endpoints, todo, endpoint,
                   caller, outcome, quotaLeft, response, url, time_periods,
                   years, idx, obs_count, start_year, end_year, earliest_year,
                   latest_year, df, resources, year_range, requested, emitted,
                   failed, seen>>
    /\ UNCHANGED <<structure_log, otherVars>>

\* lines 154-158: add_country_location raises HDXError
SkipLocation ==
    /\ pc = "start"
    /\ ~IsIgnored(countryname)
    /\ \E direct \in Iso3Answers, fuzzy \in Iso3Answers :
        /\ ResolveIso3(direct, fuzzy) # "None"
        /\ countryiso3' = ResolveIso3(direct, fuzzy)
    /\ Return("None", "None", "location")
    /\ UNCHANGED <<countryname, merge_resources, endpoints, todo, endpoint,
                   caller, outcome, quotaLeft, response, url, time_periods,
                   years, idx, obs_count, start_year, end_year, earliest_year,
                   latest_year, df, resources, year_range, requested, emitted,
                   failed, seen>>
    /\ UNCHANGED <<structure_log, otherVars>>

\* lines 143-164 and the head of the for loop of line 183
CreateDataset ==
    /\ pc = "start"
    /\ ~IsIgnored(countryname)
    /\ \E direct \in Iso3Answers, fuzzy \in Iso3Answers :
        /\ ResolveIso3(direct, fuzzy) # "None"
        /\ countryiso3' = ResolveIso3(direct, fuzzy)
    /\ earliest_year' = EARLIEST_SENTINEL
    /\ latest_year' = LATEST_SENTINEL
    /\ todo' = SortedKeys(endpoints)
    /\ pc' = "endpoints"
    /\ UNCHANGED <<countryname, merge_resources, endpoints, endpoint, caller,
                   outcome, quotaLeft, response, url, time_periods, years, idx,
                   obs_count, start_year, end_year, df, resources, year_range,
                   result, path, requested, emitted, failed, seen>>
    /\ UNCHANGED <<structure_log, otherVars>>

\* ----------------------------------------- lines 35-38: get_countriesdata
\* jsonresponse['Codelist'] of the code list document: a list of code lists,
\* each reduced to the names of its items.
Codelists == {<<>>, << <<>> >>, << <<NameArg>> >>, << <<NameArg, NameSDG>>, <<>> >>}

\* Variables get_countriesdata neither reads nor writes.
countriesFrame == <<countryname, countryiso3, merge_resources, endpoints, todo,
                    endpoint, caller, outcome, quotaLeft, response, url,
                    time_periods, years, idx, obs_count, start_year, end_year,
                    earliest_year, latest_year, df, resources, year_range,
                    result, emitted, failed, seen, structure_log, metadata,
                    dims_seen, templates, normVars>>

\* lines 36-38: the document is downloaded and the items of its first code
\* list are returned
GetCountriesData ==
    /\ pc = "countries"
    /\ requested' = TRUE
    /\ \E codelist \in Codelists :
        /\ codelist # <<>>
        /\ countriesdata' = codelist[1]
    /\ path' = "countries"
    /\ pc' = "countries_done"
    /\ UNCHANGED countriesFrame

\* line 38: the document holds no code list, [0] raises IndexError
GetCountriesDataEmpty ==
    /\ pc = "countries"
    /\ \E codelist \in Codelists : codelist = <<>>
    /\ requested' = TRUE
    /\ path' = "IndexError"
    /\ pc' = "raised"
    /\ UNCHANGED <<countriesdata, countriesFrame>>

\* line 36: downloader.download raises, nothing catches it
GetCountriesDataFails ==
    /\ pc = "countries"
    /\ requested' = TRUE
    /\ path' = "DownloadError"
    /\ pc' = "raised"
    /\ UNCHANGED <<countriesdata, countriesFrame>>

\* ------------------------------------ lines 41-60: get_endpoints_metadata
\* Ids of the dimensions a structure document may list.
DimensionIds == {"REF_AREA", "TIME_PERIOD", "SEX"}

\* Dimension lists behind the templates generate_dataset_and_showcase is
\* given: one with a REF_AREA dimension, one without.
GivenDimensionLists == {<<"REF_AREA", "TIME_PERIOD">>, <<"TIME_PERIOD">>}

\* json['structure']['dimensions']['observation'] reduced to the ids: every
\* list of at most MaxDims dimensions.
DimensionLists == UNION {[1..n -> DimensionIds] : n \in 0..MaxDims}

\* '%sdata/UNESCO,%s/' % (base_url, endpoint), line 44
BaseDataUrl(e) == <<"data/UNESCO", e>>

\* Mutant of UrlTemplate: the closing '?' is not appended.
RECURSIVE UrlSegments(_)
UrlSegments(dims) ==
    IF dims = <<>> THEN <<>>
    ELSE <<IF Head(dims) = "REF_AREA" THEN "%s" ELSE ".">> \o UrlSegments(Tail(dims))
UrlTemplateOpen(e, dims) == <<BaseDataUrl(e)>> \o UrlSegments(dims)

\* lines 51-58: urllist, as the list of the pieces ''.join puts together
UrlTemplate(e, dims) == <<BaseDataUrl(e)>> \o UrlSegments(dims) \o <<"?">>

\* structure_url % countryiso2, line 186: the one placeholder is replaced; any
\* other number of placeholders raises TypeError.
FillTemplate(t, iso2) ==
    IF Cardinality({i \in DOMAIN t : t[i] = "%s"}) = 1
    THEN [i \in DOMAIN t |-> IF t[i] = "%s" THEN iso2 ELSE t[i]]
    ELSE <<"TypeError">>

\* Variables get_endpoints_metadata neither reads nor writes.
metaFrame == <<countryname, countryiso3, merge_resources, endpoints, endpoint,
               caller, outcome, quotaLeft, response, url, time_periods, years,
               idx, obs_count, start_year, end_year, earliest_year, latest_year,
               df, resources, year_range, result, emitted, failed, seen,
               templates, countriesdata, normVars>>

\* lines 42-43: the empty dict and the head of the for loop
MetaBegin ==
    /\ pc = "meta"
    /\ metadata' = <<>>
    /\ todo' = SortedKeys(endpoints)
    /\ pc' = "meta_loop"
    /\ UNCHANGED <<path, requested, structure_log, dims_seen, metaFrame>>

\* lines 43-59: the structure of the next endpoint is downloaded and its
\* entry is stored
MetaEndpoint ==
    /\ pc = "meta_loop"
    /\ todo # <<>>
    /\ requested' = TRUE
    /\ structure_log' = Append(structure_log, Head(todo))
    /\ \E dims \in DimensionLists :
        /\ dims_seen' = Append(dims_seen, dims)
        /\ metadata' = Append(metadata,
                              [endpoint |-> Head(todo),
                               indicator |-> Indicator(Head(todo)),
                               structure_url |-> UrlTemplate(Head(todo), dims)])
    /\ todo' = Tail(todo)
    /\ UNCHANGED <<pc, path, metaFrame>>

\* line 46: downloader.download raises, nothing catches it
MetaDownloadFails ==
    /\ pc = "meta_loop"
    /\ todo # <<>>
    /\ requested' = TRUE
    /\ structure_log' = Append(structure_log, Head(todo))
    /\ todo' = Tail(todo)
    /\ path' = "DownloadError"
    /\ pc' = "raised"
    /\ UNCHANGED <<metadata, dims_seen, metaFrame>>

\* line 60
MetaReturn ==
    /\ pc = "meta_loop"
    /\ todo = <<>>
    /\ path' = "metadata"
    /\ pc' = "meta_done"
    /\ UNCHANGED <<todo, requested, structure_log, metadata, dims_seen, metaFrame>>

\* ----------------------------------- lines 63-123: the table normalizer
\* A table is [columns |-> sequence of column names, rows |-> sequence of
\* rows], a row being the sequence of its cells in column order. A cell is a
\* sequence of characters, or NaN for a missing value.
NaN == <<"NaN">>
\* What str.strip() removes from a text decoded as ISO-8859-1 (line 228):
\* space, \t, \n, \r, \f, and, written by name, \x0b, \x1c to \x1f, \x85
\* and \xa0.
Whitespace == {" ", "\t", "\n", "\r", "\f", "VT", "FS", "GS", "RS", "US",
               "NEL", "NBSP"}

\* Cells of a dimension column: code and label, no colon, two colons, missing.
DimCells == {<<"F", ":", "x">>, <<"A">>, <<"a", ":", "b", ":", "c">>, NaN}
\* Cells of a year column: missing, blank, a number.
ValueCells == {NaN, <<" ", "\r">>, <<"5">>}
\* Cells of the "Time Period" column of the download and of a free column.
PeriodCells == {<<"T">>}
NoteCells == {<<"n">>}

\* Column names that consist of digits only.
DigitNames == {"2010", "2011"}

\* Column layouts of the tables given to process_df.
Layouts == { <<"Time Period", "Sex", "2010">>,
             <<"Time Period", "2011", "Note", "2010">>,
             <<"Time Period", "Sex", "Note", "Age">>,
             <<"Sex", "2010">> }

\* The split_columns literal of lines 64-91, before it is cut down to the
\* columns of the table.
SplitColumnList ==
    <<
      "Age", "Country / region of origin", "Destination region",
      "Field of education", "Funding flow", "Grade", "Immigration status",
      "Infrastructure", "Level of education",
      "Level of educational attainment", "Location", "Orientation",
      "Reference area", "School subject", "Sex", "Socioeconomic background",
      "Source of funding", "Statistical unit", "Teaching experience",
      "Time Period", "Type of contract", "Type of education",
      "Type of expenditure", "Type of institution", "Unit of measure",
      "Wealth quintile"
    >>

\* c + code_column_postfix for the default postfix " code", lines 98
CodeColumnList ==
    <<
      "Age code", "Country / region of origin code",
      "Destination region code", "Field of education code",
      "Funding flow code", "Grade code", "Immigration status code",
      "Infrastructure code", "Level of education code",
      "Level of educational attainment code", "Location code",
      "Orientation code", "Reference area code", "School subject code",
      "Sex code", "Socioeconomic background code", "Source of funding code",
      "Statistical unit code", "Teaching experience code",
      "Time Period code", "Type of contract code", "Type of education code",
      "Type of expenditure code", "Type of institution code",
      "Unit of measure code", "Wealth quintile code"
    >>

CellsOf(c) ==
    IF c \in DigitNames THEN ValueCells
    ELSE IF c = "Time Period" THEN PeriodCells
    ELSE IF c = "Note" THEN NoteCells
    ELSE DimCells

\* Every row that fits a list of columns.
RECURSIVE RowsOf(_)
RowsOf(cols) ==
    IF cols = <<>> THEN {<<>>}
    ELSE {<<c>> \o r : c \in CellsOf(Head(cols)), r \in RowsOf(Tail(cols))}

\* Every table of a layout with at most MaxRows rows.
Tables ==
    UNION { {[columns |-> cols, rows |-> rs] : rs \in [1..k -> RowsOf(cols)]} :
            cols \in Layouts, k \in 0..MaxRows }

Range(f) == {f[i] : i \in DOMAIN f}

\* Tables read from the chunks of an endpoint and merged (lines 228 and 244):
\* one that process_df accepts, one without the "Time Period" column, one with
\* a missing value in a column to split.
MergedTables ==
    { [columns |-> <<"Time Period", "Sex", "2010">>,
       rows |-> << <<<<"T">>, <<"F", ":", "x">>, <<"5">>>> >>],
      [columns |-> <<"Sex", "2010">>,
       rows |-> << <<<<"F", ":", "x">>, <<"5">>>> >>],
      [columns |-> <<"Time Period", "Sex", "2010">>,
       rows |-> << <<<<"T">>, NaN, <<"5">>>> >>] }

EmptyTable == [columns |-> <<>>, rows |-> <<>>]

RECURSIVE ConcatAll(_)
ConcatAll(ss) == IF ss = <<>> THEN <<>> ELSE Head(ss) \o ConcatAll(Tail(ss))

\* Position of column c in a list of columns.
ColumnIndex(cols, c) == CHOOSE i \in DOMAIN cols : cols[i] = c

\* [x for x in xs if x in S] and [x for x in xs if x not in S]
Those(xs, S) == LET In(x) == x \in S IN SelectSeq(xs, In)
ThoseNot(xs, S) == LET Out(x) == x \notin S IN SelectSeq(xs, Out)

\* df[cols]: the columns cols of table t, in that order
Project(t, cols) ==
    [columns |-> cols,
     rows |-> [r \in DOMAIN t.rows |->
                 [i \in DOMAIN cols |-> t.rows[r][ColumnIndex(t.columns, cols[i])]]]]

\* df.drop(columns=c), line 118
Drop(t, c) == Project(t, ThoseNot(t.columns, {c}))

\* x.split(":")
RECURSIVE SplitColon(_)
SplitColon(x) ==
    IF \A i \in DOMAIN x : x[i] # ":" THEN <<x>>
    ELSE LET i == CHOOSE k \in DOMAIN x :
                      x[k] = ":" /\ \A j \in 1..(k - 1) : x[j] # ":"
         IN <<SubSeq(x, 1, i - 1)>> \o SplitColon(SubSeq(x, i + 1, Len(x)))

\* ":".join(ps)
RECURSIVE JoinColon(_)
JoinColon(ps) ==
    IF ps = <<>> THEN <<>>
    ELSE IF Len(ps) = 1 THEN ps[1]
    ELSE ps[1] \o <<":">> \o JoinColon(Tail(ps))

\* line 95: ":".join(x.split(":")[1:])
LabelOf(x) == JoinColon(Tail(SplitColon(x)))
\* line 99: x.split(":")[0]
CodeOf(x) == Head(SplitColon(x))

\* line 98
CodeColumn(c) == CodeColumnList[ColumnIndex(SplitColumnList, c)]

\* lines 64-91: the names of the literal that are columns of the table
SplitColumns(t) == Those(SplitColumnList, Range(t.columns))

\* lines 63-103
SplitColumnsDf(t, sc) ==
    LET split == SplitColumns(t)
        others == ThoseNot(t.columns, Range(split))
        Cell(r, c) == t.rows[r][ColumnIndex(t.columns, c)]
    IN [columns |->
            ConcatAll([i \in DOMAIN split |->
                          IF sc THEN <<split[i], CodeColumn(split[i])>>
                          ELSE <<split[i]>>])
            \o others,
        rows |->
            [r \in DOMAIN t.rows |->
                ConcatAll([i \in DOMAIN split |->
                              IF sc THEN <<LabelOf(Cell(r, split[i])),
                                           CodeOf(Cell(r, split[i]))>>
                              ELSE <<LabelOf(Cell(r, split[i]))>>])
                \o [i \in DOMAIN others |-> Cell(r, others[i])]]]

\* line 106: str(y).isdigit()
YearColumns(t) == Those(t.columns, DigitNames)
\* line 107
CopyColumns(t) == ThoseNot(t.columns, Range(YearColumns(t)))

\* Mutant of ExpandBlocks: one block per row instead of one per year column.
ExpandByRow(t) ==
    LET ys == YearColumns(t)
        dfc == Project(t, CopyColumns(t))
    IN ConcatAll([r \in DOMAIN t.rows |->
                    [k \in DOMAIN ys |->
                        [cells |-> dfc.rows[r] \o
                                   << <<ys[k]>>,
                                      t.rows[r][ColumnIndex(t.columns, ys[k])] >>,
                         row |-> r, year |-> k]]])

\* lines 109-114: for every year column in turn a copy of all rows with the
\* column name and the column's values added, each block appended to the
\* result. Every row carries the original row and the year column it is from.
ExpandBlocks(t) ==
    LET ys == YearColumns(t)
        dfc == Project(t, CopyColumns(t))
    IN ConcatAll([k \in DOMAIN ys |->
                    [r \in DOMAIN t.rows |->
                        [cells |-> dfc.rows[r] \o
                                   << <<ys[k]>>,
                                      t.rows[r][ColumnIndex(t.columns, ys[k])] >>,
                         row |-> r, year |-> k]]])

\* lines 105-115
ExpandTimeColumnsDf(t) ==
    [columns |-> CopyColumns(t) \o <<"Time Period", "Value">>,
     rows |-> [i \in DOMAIN ExpandBlocks(t) |-> ExpandBlocks(t)[i].cells]]

\* The original row and year column of every row of the expanded table.
ExpandOrigin(t) ==
    [i \in DOMAIN ExpandBlocks(t) |->
        <<ExpandBlocks(t)[i].row, ExpandBlocks(t)[i].year>>]

\* str(x)
Str(x) == IF x = NaN THEN <<"n", "a", "n">> ELSE x

\* s.strip()
RECURSIVE LStrip(_)
LStrip(s) == IF s # <<>> /\ Head(s) \in Whitespace THEN LStrip(Tail(s)) ELSE s
RECURSIVE RStrip(_)
RStrip(s) ==
    IF s # <<>> /\ s[Len(s)] \in Whitespace THEN RStrip(SubSeq(s, 1, Len(s) - 1))
    ELSE s
Strip(s) == RStrip(LStrip(s))

\* Mutant of Keeps: only missing values are dropped.
KeepsUnlessMissing(v) == v # NaN

\* line 121, one element of index
Keeps(v) == ~(v = NaN \/ Len(Strip(Str(v))) = 0)

\* Positions of the rows df.loc[index] keeps, in order.
KeptPositions(t) ==
    LET n == Len(t.columns)
        Kept(i) == Keeps(t.rows[i][n])
    IN SelectSeq([i \in DOMAIN t.rows |-> i], Kept)

\* Where process_df returns to: line 251 of generate_dataset_and_showcase, or
\* the caller of a direct call.
NormReturnSite == IF caller = "file" THEN "to_csv" ELSE "norm_done"

\* Variables process_df neither reads nor writes.
normFrame == <<countryname, countryiso3, merge_resources, endpoints, todo,
               endpoint, caller, outcome, quotaLeft, response, url,
               time_periods, years, idx, obs_count, start_year, end_year,
               earliest_year, latest_year, df, resources, year_range, result,
               requested, emitted, failed, seen, structure_log, metadata,
               dims_seen, templates, countriesdata, given, store_code>>

\* line 118
ProcessDrop ==
    /\ pc = "process_df"
    /\ "Time Period" \in Range(table.columns)
    /\ table' = Drop(table, "Time Period")
    /\ pc' = "split"
    /\ UNCHANGED <<path, split_in, expanded, origin, normFrame>>

\* line 118: no column of that name, drop raises KeyError
ProcessDropFails ==
    /\ pc = "process_df"
    /\ "Time Period" \notin Range(table.columns)
    /\ path' = "KeyError"
    /\ pc' = "raised"
    /\ UNCHANGED <<table, split_in, expanded, origin, normFrame>>

\* A missing value in a column to split: x.split raises AttributeError.
SplitRaises(t) ==
    \E r \in DOMAIN t.rows : \E i \in DOMAIN t.columns :
        t.columns[i] \in Range(SplitColumns(t)) /\ t.rows[r][i] = NaN

\* line 119
Split ==
    /\ pc = "split"
    /\ ~SplitRaises(table)
    /\ split_in' = table
    /\ table' = SplitColumnsDf(table, store_code)
    /\ pc' = "expand"
    /\ UNCHANGED <<path, expanded, origin, normFrame>>

\* line 119, lines 95 and 99 applied to a float
SplitFails ==
    /\ pc = "split"
    /\ SplitRaises(table)
    /\ path' = "AttributeError"
    /\ pc' = "raised"
    /\ UNCHANGED <<table, split_in, expanded, origin, normFrame>>

\* line 120
Expand ==
    /\ pc = "expand"
    /\ table' = ExpandTimeColumnsDf(table)
    /\ expanded' = table'
    /\ origin' = ExpandOrigin(table)
    /\ pc' = "filter"
    /\ UNCHANGED <<path, split_in, normFrame>>

\* lines 121-123
Filter ==
    /\ pc = "filter"
    /\ table' = [table EXCEPT
                    !.rows = [i \in DOMAIN KeptPositions(table) |->
                                 table.rows[KeptPositions(table)[i]]]]
    /\ origin' = [i \in DOMAIN KeptPositions(table) |->
                     origin[KeptPositions(table)[i]]]
    /\ path' = (IF caller = "file" THEN path ELSE "normalized")
    /\ pc' = NormReturnSite
    /\ UNCHANGED <<split_in, expanded, normFrame>>

\* ------------------------------------------- lines 165-181: load_safely
\* downloader.download(url), line 169: the service answers.
Download ==
    /\ pc = "load"
    /\ \E o \in Outcomes :
        /\ o = "Quota Exceeded" => quotaLeft > 0
        /\ outcome' = o
        /\ quotaLeft' = IF o = "Quota Exceeded" THEN quotaLeft - 1 ELSE quotaLeft
    /\ requested' = TRUE
    /\ pc' = "loaded"
    /\ UNCHANGED <<countryname, countryiso3, merge_resources, endpoints, todo, endpoint,
                   caller, response, url, time_periods, years, idx, obs_count,
                   start_year, end_year, earliest_year, latest_year, df,
                   resources, year_range, result, path, emitted, failed, seen>>
    /\ UNCHANGED <<structure_log, otherVars>>

\* Mutant of LoadSafelyDecision: a quota failure ends the call with None.
LoadSafelyGivesUp(o) ==
    IF o = "ok" THEN "return"
    ELSE IF o = "Quota Exceeded" THEN "none"
    ELSE IF o = "Not Found" THEN "none"
    ELSE "reraise"

\* Mutant of LoadSafelyDecision: a not-found failure is retried like a quota
\* failure.
LoadSafelyRetriesNotFound(o) ==
    IF o = "ok" THEN "return"
    ELSE IF o = "Quota Exceeded" THEN "retry"
    ELSE IF o = "Not Found" THEN "retry"
    ELSE "reraise"

\* What load_safely does with the outcome of one download (lines 167-181):
\* "return" the response, "retry" after the sleep, return "none", or "reraise".
LoadSafelyDecision(o) ==
    IF o = "ok" THEN "return"
    ELSE IF o = "Quota Exceeded" THEN "retry"
    ELSE IF o = "Not Found" THEN "none"
    ELSE "reraise"

ReturnSite == IF caller = "structure" THEN "structure_ret" ELSE "chunk_ret"

LoadSafelyStep ==
    /\ pc = "loaded"
    /\ LET d == LoadSafelyDecision(outcome) IN
        \/ /\ d = "return"
           /\ response' = "response"
           /\ pc' = ReturnSite
           /\ quotaLeft' = MaxQuota
           /\ UNCHANGED <<result, path>>
        \/ /\ d = "retry"
           /\ pc' = "load"
           /\ UNCHANGED <<response, result, path, quotaLeft>>
        \/ /\ d = "none"
           /\ response' = "None"
           /\ pc' = ReturnSite
           /\ quotaLeft' = MaxQuota
           /\ UNCHANGED <<result, path>>
        \/ /\ d = "reraise"
           /\ Raise("DownloadError")
           /\ UNCHANGED <<response, quotaLeft>>
    /\ UNCHANGED <<countryname, countryiso3, merge_resources, endpoints, todo,
                   endpoint, caller, outcome, url, time_periods, years, idx,
                   obs_count, start_year, end_year, earliest_year, latest_year,
                   df, resources, year_range, requested, emitted, failed, seen>>
    /\ UNCHANGED <<structure_log, otherVars>>

\* --------------------------------------- lines 183-258: the endpoint loop
\* lines 183-187: the next endpoint in sorted order, and its structure request
\* line 186: the template of the endpoint cannot be filled with the ISO2 code
NextEndpointFillFails ==
    /\ pc = "endpoints"
    /\ todo # <<>>
    /\ FillTemplate(templates[Head(todo)], "iso2") = <<"TypeError">>
    /\ endpoint' = Head(todo)
    /\ todo' = Tail(todo)
    /\ Raise("TypeError")
    /\ UNCHANGED <<countryname, countryiso3, merge_resources, endpoints,
                   caller, outcome, quotaLeft, response, url, time_periods,
                   years, idx, obs_count, start_year, end_year, earliest_year,
                   latest_year, df, resources, year_range, requested, emitted,
                   failed, seen>>
    /\ UNCHANGED <<structure_log, otherVars>>

NextEndpoint ==
    /\ pc = "endpoints"
    /\ todo # <<>>
    /\ FillTemplate(templates[Head(todo)], "iso2") # <<"TypeError">>
    /\ endpoint' = Head(todo)
    /\ todo' = Tail(todo)
    /\ url' = StructureUrl(Head(todo))
    /\ structure_log' = Append(structure_log, Head(todo))
    /\ caller' = "structure"
    /\ pc' = "load"
    /\ UNCHANGED <<countryname, countryiso3, merge_resources, endpoints, outcome,
                   quotaLeft, response, time_periods, years, idx, obs_count,
                   start_year, end_year, earliest_year, latest_year, df,
                   resources, year_range, result, path, requested, emitted,
                   failed, seen>>
    /\ UNCHANGED otherVars

\* line 188 on a None response: response.json() raises AttributeError
StructureNone ==
    /\ pc = "structure_ret"
    /\ response = "None"
    /\ Raise("AttributeError")
    /\ UNCHANGED <<countryname, countryiso3, merge_resources, endpoints, todo,
                   endpoint, caller, outcome, quotaLeft, response, url,
                   time_periods, years, idx, obs_count, start_year, end_year,
                   earliest_year, latest_year, df, resources, year_range,
                   requested, emitted, failed, seen>>
    /\ UNCHANGED <<structure_log, otherVars>>

\* Mutant of UpdateEarliest: the newest year is compared instead of the oldest.
UpdateEarliestFromNewest(earliest, ys) ==
    IF ys[1] < earliest THEN ys[1] ELSE earliest

\* lines 200-201
UpdateEarliest(earliest, ys) ==
    IF ys[Len(ys)] < earliest THEN ys[Len(ys)] ELSE earliest

\* lines 199, 202-203
UpdateLatest(latest, ys) == IF ys[1] > latest THEN ys[1] ELSE latest

\* lines 188-198: the structure has no year, the endpoint is passed over
StructureEmpty ==
    /\ pc = "structure_ret"
    /\ response = "response"
    /\ time_periods' = <<>>
    /\ years' = <<>>
    /\ emitted' = <<>>
    /\ failed' = FALSE
    /\ pc' = "endpoints"
    /\ UNCHANGED <<countryname, countryiso3, merge_resources, endpoints, todo,
                   endpoint, caller, outcome, quotaLeft, response, url, idx,
                   obs_count, start_year, end_year, earliest_year, latest_year,
                   df, resources, year_range, result, path, requested, seen>>
    /\ UNCHANGED <<structure_log, otherVars>>

\* The least and greatest year received, with the years Y added.
SeenWith(sn, Y) ==
    IF sn = <<>> THEN <<Min(Y), Max(Y)>>
    ELSE <<Min(Y \cup {sn[1]}), Max(Y \cup {sn[2]})>>

\* lines 188-232: the structure carries years
StructureYears ==
    /\ pc = "structure_ret"
    /\ response = "response"
    /\ \E tp \in TimePeriods :
        /\ DOMAIN tp # {}
        /\ time_periods' = tp
        /\ years' = SortedDesc(DOMAIN tp)
        /\ seen' = SeenWith(seen, DOMAIN tp)
    /\ end_year' = years'[1]
    /\ earliest_year' = UpdateEarliest(earliest_year, years')
    /\ latest_year' = UpdateLatest(latest_year, years')
    /\ obs_count' = 0
    /\ start_year' = end_year'
    /\ df' = <<>>
    /\ idx' = 1
    /\ emitted' = <<>>
    /\ failed' = FALSE
    /\ pc' = "years"
    /\ UNCHANGED <<countryname, countryiso3, merge_resources, endpoints, todo,
                   endpoint, caller, outcome, quotaLeft, response, url,
                   resources, year_range, result, path, requested>>
    /\ UNCHANGED <<structure_log, otherVars>>

\* Mutant of Fits: the ceiling itself still fits.
FitsAtCeiling(count) == count <= MAX_OBSERVATIONS

\* line 236: the year still fits the open chunk
Fits(count) == count < MAX_OBSERVATIONS

\* lines 234-238: the year joins the open chunk
YearFits ==
    /\ pc = "years"
    /\ idx <= Len(years)
    /\ Fits(obs_count + time_periods[years[idx]])
    /\ obs_count' = obs_count + time_periods[years[idx]]
    /\ start_year' = years[idx]
    /\ idx' = idx + 1
    /\ UNCHANGED <<pc, countryname, countryiso3, merge_resources, endpoints, todo,
                   endpoint, caller, outcome, quotaLeft, response, url,
                   time_periods, years, end_year, earliest_year, latest_year,
                   df, resources, year_range, result, path, requested, emitted,
                   failed, seen>>
    /\ UNCHANGED <<structure_log, otherVars>>

\* lines 234-247, split mode: create_resource for the open chunk
YearSplits ==
    /\ pc = "years"
    /\ idx <= Len(years)
    /\ ~Fits(obs_count + time_periods[years[idx]])
    /\ ~merge_resources
    /\ obs_count' = time_periods[years[idx]]
    /\ resources' = AddUpdateResource(resources,
                                      LinkResource(endpoint, start_year, end_year))
    /\ emitted' = Append(emitted, <<start_year, end_year>>)
    /\ end_year' = years[idx]
    /\ idx' = idx + 1
    /\ UNCHANGED <<pc, countryname, countryiso3, merge_resources, endpoints, todo,
                   endpoint, caller, outcome, quotaLeft, response, url,
                   time_periods, years, start_year, earliest_year, latest_year,
                   df, year_range, result, path, requested, failed, seen>>
    /\ UNCHANGED <<structure_log, otherVars>>

\* lines 234-241 and 221-226, merge mode: download_df asks for the open chunk
YearDownloads ==
    /\ pc = "years"
    /\ idx <= Len(years)
    /\ ~Fits(obs_count + time_periods[years[idx]])
    /\ merge_resources
    /\ obs_count' = time_periods[years[idx]]
    /\ url' = CsvUrl(endpoint, start_year, end_year)
    /\ emitted' = Append(emitted, <<start_year, end_year>>)
    /\ caller' = "chunk"
    /\ pc' = "load"
    /\ UNCHANGED <<countryname, countryiso3, merge_resources, endpoints, todo,
                   endpoint, outcome, quotaLeft, response, time_periods, years,
                   idx, start_year, end_year, earliest_year, latest_year, df,
                   resources, year_range, result, path, requested, failed, seen>>
    /\ UNCHANGED <<structure_log, otherVars>>

\* lines 227-228 and 242-247: download_df returns, df grows, the chunk closes
ChunkReturns ==
    /\ pc = "chunk_ret"
    /\ IF response = "None"
       THEN failed' = TRUE /\ df' = df
       ELSE failed' = failed /\ df' = Append(df, <<start_year, end_year>>)
    /\ end_year' = years[idx]
    /\ idx' = idx + 1
    /\ pc' = "years"
    /\ UNCHANGED <<countryname, countryiso3, merge_resources, endpoints, todo,
                   endpoint, caller, outcome, quotaLeft, response, url,
                   time_periods, years, obs_count, start_year, earliest_year,
                   latest_year, resources, year_range, result, path, requested,
                   emitted, seen>>
    /\ UNCHANGED <<structure_log, otherVars>>

\* lines 249-251: df is not None, process_df is called with the merged table
\* and its defaults (store_code = False)
EndpointNormalize ==
    /\ pc = "years"
    /\ idx > Len(years)
    /\ df # <<>>
    /\ \E t \in MergedTables :
        /\ given' = t
        /\ table' = t
    /\ store_code' = FALSE
    /\ split_in' = EmptyTable
    /\ expanded' = EmptyTable
    /\ origin' = <<>>
    /\ caller' = "file"
    /\ pc' = "process_df"
    /\ UNCHANGED <<countryname, countryiso3, merge_resources, endpoints, todo,
                   endpoint, outcome, quotaLeft, response, url, time_periods,
                   years, idx, obs_count, start_year, end_year, earliest_year,
                   latest_year, df, resources, year_range, result, path,
                   requested, emitted, failed, seen>>
    /\ UNCHANGED <<structure_log, metadata, dims_seen, templates, countriesdata>>

\* lines 251-258: the table process_df returned is written and the merged
\* file of the endpoint becomes one resource
EndpointFile ==
    /\ pc = "to_csv"
    /\ resources' = AddUpdateResource(resources, FileResource(endpoint, countryname))
    /\ pc' = "endpoints"
    /\ UNCHANGED <<countryname, countryiso3, merge_resources, endpoints, todo,
                   endpoint, caller, outcome, quotaLeft, response, url,
                   time_periods, years, idx, obs_count, start_year, end_year,
                   earliest_year, latest_year, df, year_range, result, path,
                   requested, emitted, failed, seen>>
    /\ UNCHANGED <<structure_log, otherVars>>

\* line 249 with df None: nothing is added
EndpointNoFile ==
    /\ pc = "years"
    /\ idx > Len(years)
    /\ df = <<>>
    /\ pc' = "endpoints"
    /\ UNCHANGED <<countryname, countryiso3, merge_resources, endpoints, todo,
                   endpoint, caller, outcome, quotaLeft, response, url,
                   time_periods, years, idx, obs_count, start_year, end_year,
                   earliest_year, latest_year, df, resources, year_range,
                   result, path, requested, emitted, failed, seen>>
    /\ UNCHANGED <<structure_log, otherVars>>

\* ------------------------------------------------ lines 260-273: finalize
\* Mutant of NoResources: a single resource counts as none.
NoResourcesOffByOne(rs) == Len(rs) <= 1

\* line 260
NoResources(rs) == Len(rs) = 0

\* Mutant of Discard: the empty dataset is returned without a showcase.
DiscardKeepsDataset ==
    /\ pc = "endpoints"
    /\ todo = <<>>
    /\ NoResources(resources)
    /\ Return("Dataset", "None", "no_resources")
    /\ UNCHANGED <<countryname, countryiso3, merge_resources, endpoints, todo,
                   endpoint, caller, outcome, quotaLeft, response, url,
                   time_periods, years, idx, obs_count, start_year, end_year,
                   earliest_year, latest_year, df, resources, year_range,
                   requested, emitted, failed, seen>>
    /\ UNCHANGED <<structure_log, otherVars>>

\* lines 260-262
Discard ==
    /\ pc = "endpoints"
    /\ todo = <<>>
    /\ NoResources(resources)
    /\ Return("None", "None", "no_resources")
    /\ UNCHANGED <<countryname, countryiso3, merge_resources, endpoints, todo,
                   endpoint, caller, outcome, quotaLeft, response, url,
                   time_periods, years, idx, obs_count, start_year, end_year,
                   earliest_year, latest_year, df, resources, year_range,
                   requested, emitted, failed, seen>>
    /\ UNCHANGED <<structure_log, otherVars>>

\* lines 263-273
Emit ==
    /\ pc = "endpoints"
    /\ todo = <<>>
    /\ ~NoResources(resources)
    /\ year_range' = <<earliest_year, latest_year>>
    /\ Return("Dataset", "Showcase", "success")
    /\ UNCHANGED <<countryname, countryiso3, merge_resources, endpoints, todo,
                   endpoint, caller, outcome, quotaLeft, response, url,
                   time_periods, years, idx, obs_count, start_year, end_year,
                   earliest_year, latest_year, df, resources, requested,
                   emitted, failed, seen>>
    /\ UNCHANGED <<structure_log, otherVars>>

\* --------------------------------------------------------- specification
\* The locals of all functions before any of them has run.
Locals ==
    /\ countryiso3 = "unset"
    /\ todo = <<>>
    /\ endpoint = ""
    /\ caller = ""
    /\ outcome = ""
    /\ quotaLeft = MaxQuota
    /\ response = "unset"
    /\ url = <<>>
    /\ time_periods = <<>>
    /\ years = <<>>
    /\ idx = 0
    /\ obs_count = 0
    /\ start_year = 0
    /\ end_year = 0
    /\ earliest_year = 0
    /\ latest_year = 0
    /\ df = <<>>
    /\ resources = <<>>
    /\ year_range = <<>>
    /\ result = <<"unset", "unset">>
    /\ path = ""
    /\ requested = FALSE
    /\ emitted = <<>>
    /\ failed = FALSE
    /\ seen = <<>>
    /\ structure_log = <<>>
    /\ metadata = <<>>
    /\ dims_seen = <<>>
    /\ split_in = EmptyTable
    /\ expanded = EmptyTable
    /\ origin = <<>>
    /\ countriesdata = <<>>

\* Either generate_dataset_and_showcase is called (pc = "start"), or
\* get_endpoints_metadata (pc = "meta"), or get_countriesdata
\* (pc = "countries"); the latter two take no country and no mode, which are
\* held at one value. Mappings of two endpoints are explored
\* for one country; the other names, which differ only in what the prefix
\* test of line 132 makes of them, come with at most one endpoint.
Init ==
    /\ pc \in {"start", "meta", "countries"}
    /\ countryname \in (IF pc = "start" THEN CountryNames ELSE {NameArg})
    /\ merge_resources \in (IF pc = "start" THEN BOOLEAN ELSE {TRUE})
    /\ endpoints \in (IF pc = "countries" THEN {<<>>}
                      ELSE IF countryname = NameArg THEN EndpointOrders
                      ELSE {o \in EndpointOrders : Len(o) <= 1})
    /\ templates \in (IF pc = "start"
                      THEN {[e \in Keys(endpoints) |-> UrlTemplate(e, d[e])] :
                               d \in [Keys(endpoints) -> GivenDimensionLists]}
                      ELSE {<<>>})
    /\ given = EmptyTable
    /\ table = EmptyTable
    /\ store_code = FALSE
    /\ Locals

\* process_df is called with a table and the store_code argument.
NormInit ==
    /\ pc = "process_df"
    /\ given \in Tables
    /\ table = given
    /\ store_code \in BOOLEAN
    /\ countryname = NameArg
    /\ merge_resources = TRUE
    /\ endpoints = <<>>
    /\ templates = <<>>
    /\ Locals

NormNext ==
    \/ ProcessDrop
    \/ ProcessDropFails
    \/ Split
    \/ SplitFails
    \/ Expand
    \/ Filter

NormSpec == NormInit /\ [][NormNext]_vars

Next ==
    \/ GetCountriesData
    \/ GetCountriesDataEmpty
    \/ GetCountriesDataFails
    \/ MetaBegin
    \/ MetaEndpoint
    \/ MetaDownloadFails
    \/ MetaReturn
    \/ SkipIgnored
    \/ SkipNoIso3
    \/ SkipLocation
    \/ CreateDataset
    \/ NextEndpointFillFails
    \/ NextEndpoint
    \/ Download
    \/ LoadSafelyStep
    \/ StructureNone
    \/ StructureEmpty
    \/ StructureYears
    \/ YearFits
    \/ YearSplits
    \/ YearDownloads
    \/ ChunkReturns
    \/ EndpointNormalize
    \/ ProcessDrop
    \/ ProcessDropFails
    \/ Split
    \/ SplitFails
    \/ Expand
    \/ Filter
    \/ EndpointFile
    \/ EndpointNoFile
    \/ Discard
    \/ Emit

Spec == Init /\ [][Next]_vars

\* The program is sequential and every call returns: it always takes its next
\* step, and the service answers every request.
LiveSpec == Init /\ [][Next]_vars /\ WF_vars(Next)

Terminated == pc \in {"done", "raised", "meta_done", "countries_done"}

\* ================================================================ claims
\* The mapping, the emitted chunks and the resources of the endpoint the loop
\* has just finished are in the state when control is back at line 183.
EndpointDone == pc = "endpoints" /\ endpoint # "" /\ DOMAIN time_periods # {}

\* Sum of the counts of the mapping's years inside [s, t].
RECURSIVE SumOver(_, _)
SumOver(tp, Y) ==
    IF Y = {} THEN 0
    ELSE LET y == CHOOSE z \in Y : TRUE IN tp[y] + SumOver(tp, Y \ {y})
ChunkCount(tp, s, t) == SumOver(tp, {y \in DOMAIN tp : s <= y /\ y <= t})

\* The chunks the Time-Range Chunker is to produce for a mapping, newest
\* first: a year joins the open chunk while the running count stays below the
\* ceiling, otherwise it opens a new chunk; the chunk open at the end of the
\* scan is closed too.
RECURSIVE ChunkScan(_, _, _, _, _, _)
ChunkScan(tp, ys, i, lo, hi, acc) ==
    IF i > Len(ys) THEN <<<<lo, hi>>>>
    ELSE IF acc + tp[ys[i]] < MAX_OBSERVATIONS
         THEN ChunkScan(tp, ys, i + 1, ys[i], hi, acc + tp[ys[i]])
         ELSE <<<<lo, hi>>>> \o ChunkScan(tp, ys, i + 1, ys[i], ys[i], tp[ys[i]])
ChunksOfMapping(tp) ==
    LET ys == SortedDesc(DOMAIN tp)
    IN IF ys = <<>> THEN <<>> ELSE ChunkScan(tp, ys, 2, ys[1], ys[1], tp[ys[1]])

\* The resources of the dataset that carry the indicator of endpoint e.
ResourcesOf(e) == SelectSeq(resources, LAMBDA r : r.name[1] = Indicator(e))

\* C1: when the chunking loop of an endpoint has ended, every year of its
\* mapping lies in exactly one emitted chunk [start_year, end_year].
C1_ChunksTileYears ==
    EndpointDone =>
        \A y \in DOMAIN time_periods :
            Cardinality({i \in 1..Len(emitted) :
                            emitted[i][1] <= y /\ y <= emitted[i][2]}) = 1

\* C2: every emitted chunk has a total observation count below
\* MAX_OBSERVATIONS, unless it is a chunk of exactly one year whose own count
\* reaches or exceeds the ceiling.
C2_ChunkBelowCeiling ==
    \A i \in 1..Len(emitted) :
        LET s == emitted[i][1]
            t == emitted[i][2]
        IN \/ ChunkCount(time_periods, s, t) < MAX_OBSERVATIONS
           \/ /\ s = t
              /\ s \in DOMAIN time_periods
              /\ time_periods[s] >= MAX_OBSERVATIONS

\* C2 witness: a chunk of several years with observations has been emitted.
C2_Witness ==
    \E i \in 1..Len(emitted) :
        /\ emitted[i][1] < emitted[i][2]
        /\ ChunkCount(time_periods, emitted[i][1], emitted[i][2]) > 0

\* C3: in split mode the resources of an endpoint are, in order, one csv link
\* per chunk of its mapping, newest chunk first and the oldest chunk included,
\* each named and addressed by its chunk's start and end year.
C3_SplitResourcePerChunk ==
    (EndpointDone /\ ~merge_resources) =>
        LET cs == ChunksOfMapping(time_periods)
        IN ResourcesOf(endpoint) =
              [i \in 1..Len(cs) |-> LinkResource(endpoint, cs[i][1], cs[i][2])]

\* C4: load_safely sorts the outcome of each download: a quota failure is
\* followed by a new request for the same URL and neither a return nor a
\* raise; a not-found failure makes it return None with no further request;
\* any other failure is raised to the caller; a response is returned.
C4_LoadSafelyClassifies ==
    [][pc = "loaded" =>
         /\ outcome = "Quota Exceeded" =>
               (pc' = "load" /\ url' = url /\ response' = response /\ path' = path)
         /\ outcome = "Not Found" =>
               (response' = "None" /\ pc' \in {"structure_ret", "chunk_ret"}
                /\ path' = path)
         /\ outcome = "Server Error" =>
               (pc' = "raised" /\ path' = "DownloadError")
         /\ outcome = "ok" =>
               (response' = "response" /\ pc' \in {"structure_ret", "chunk_ret"}
                /\ path' = path)]_vars

\* C4 witness: after a quota failure load_safely is about to ask again.
C4_Witness == pc = "load" /\ outcome = "Quota Exceeded" /\ requested

\* C5: a not-found answer to a request of load_safely never ends the call
\* with an exception.
C5_NotFoundNeverFatal == ~(pc = "raised" /\ outcome = "Not Found")

\* C6: a quota failure is always followed by another request for the same
\* URL, and once the service stops answering quota-exceeded every load_safely
\* call, and the whole generate_dataset_and_showcase call, comes to an end.
C6_QuotaRetryThenTermination ==
    /\ [][(pc = "loaded" /\ outcome = "Quota Exceeded") =>
             (pc' = "load" /\ url' = url)]_vars
    /\ (pc = "load") ~> (pc \notin {"load", "loaded"})
    /\ <>Terminated

\* C6 witness: after its quota failures the service has answered the request
\* of a chunk with a response, which load_safely is about to return.
C6_Witness ==
    pc = "loaded" /\ caller = "chunk" /\ outcome = "ok" /\ quotaLeft = 0

\* s starts with the characters of p
StartsWith(s, p) == Len(s) >= Len(p) /\ SubSeq(s, 1, Len(p)) = p

\* The country was passed over: (None, None) returned, nothing requested and
\* no resource added.
PassedOver ==
    /\ pc \in {"start", "done"}
    /\ pc = "done" => result = <<"None", "None">>
    /\ ~requested
    /\ resources = <<>>

\* C7 as stated: a name that starts with WB:, SDG:, MDG:, UIS:, EFA:, GEMR:,
\* AIMS:, UNICEF: or UNESCO:, or a country without ISO3 code, is passed over.
C7_Original ==
    (\/ \E p \in {<<"W", "B", ":">>, <<"S", "D", "G", ":">>, <<"M", "D", "G", ":">>,
                  <<"U", "I", "S", ":">>, <<"E", "F", "A", ":">>,
                  <<"G", "E", "M", "R", ":">>, <<"A", "I", "M", "S", ":">>,
                  <<"U", "N", "I", "C", "E", "F", ":">>,
                  <<"U", "N", "E", "S", "C", "O", ":">>} : StartsWith(countryname, p)
     \/ countryiso3 = "None")
    => PassedOver

\* C7 as amended: the WB prefix is "WB: ", with the space; a name that starts
\* with it or with SDG:, MDG:, UIS:, EFA:, GEMR:, AIMS:, UNICEF: or UNESCO:, or
\* a country without ISO3 code, is passed over.
C7_SkipIsTerminal ==
    (\/ \E p \in {<<"W", "B", ":", " ">>, <<"S", "D", "G", ":">>,
                  <<"M", "D", "G", ":">>, <<"U", "I", "S", ":">>,
                  <<"E", "F", "A", ":">>, <<"G", "E", "M", "R", ":">>,
                  <<"A", "I", "M", "S", ":">>,
                  <<"U", "N", "I", "C", "E", "F", ":">>,
                  <<"U", "N", "E", "S", "C", "O", ":">>} : StartsWith(countryname, p)
     \/ countryiso3 = "None")
    => PassedOver

\* C7 witness: a "WB: " name has been returned as (None, None).
C7_Witness ==
    /\ pc = "done"
    /\ StartsWith(countryname, <<"W", "B", ":", " ">>)
    /\ result = <<"None", "None">>

\* C8: once finalize has run, a dataset is returned exactly when the dataset
\* holds at least one resource, (None, None) is returned otherwise, and when
\* no endpoint reported a year there is no resource and no dataset.
C8_EmitIffResources ==
    path \in {"no_resources", "success"} =>
        /\ pc = "done"
        /\ result = <<"Dataset", "Showcase">> <=> Len(resources) >= 1
        /\ Len(resources) = 0 => result = <<"None", "None">>
        /\ seen = <<>> => (resources = <<>> /\ result = <<"None", "None">>)

\* C8 witness: every endpoint of a country reported no year and the country
\* was discarded.
C8_Witness ==
    /\ pc = "done"
    /\ path = "no_resources"
    /\ Len(endpoints) = 2
    /\ seen = <<>>

\* C9: an emitted dataset's year range is the least and the greatest year of
\* all mappings received, it holds neither sentinel, it is not inverted, and
\* the start and end year of every link resource lie inside it.
C9_YearRange ==
    path = "success" =>
        /\ seen # <<>>
        /\ year_range = seen
        /\ year_range[1] # EARLIEST_SENTINEL
        /\ year_range[2] # LATEST_SENTINEL
        /\ year_range[1] <= year_range[2]
        /\ \A i \in 1..Len(resources) :
              resources[i].url # <<>> =>
                  /\ year_range[1] <= resources[i].url[3]
                  /\ resources[i].url[3] <= year_range[2]
                  /\ year_range[1] <= resources[i].url[4]
                  /\ resources[i].url[4] <= year_range[2]

\* C9 witness: a dataset with link resources of two endpoints was emitted with
\* a range of several years.
C9_Witness ==
    /\ path = "success"
    /\ ~merge_resources
    /\ year_range[1] < year_range[2]
    /\ ResourcesOf("DEM_ECO") # <<>>
    /\ ResourcesOf("EDU_FINANCE") # <<>>

\* C10: in merge mode, for an endpoint with years whose downloads all
\* succeeded, the chunks downloaded are the chunks of its mapping, each once,
\* and the dataset holds exactly one file resource of the endpoint.
C10_MergeDownloadsEveryChunk ==
    (EndpointDone /\ merge_resources /\ ~failed) =>
        /\ df = ChunksOfMapping(time_periods)
        /\ Len(ResourcesOf(endpoint)) = 1

\* C15: when the scan of an endpoint's years has ended, at least one chunk has
\* been emitted and the last emitted chunk starts at the oldest year.
C15_OldestChunkEmitted ==
    EndpointDone =>
        /\ Len(emitted) >= 1
        /\ emitted[Len(emitted)][1] = Min(DOMAIN time_periods)

\* C16: every year whose own count reaches the ceiling has been emitted as a
\* chunk of that year alone when the scan has ended, and no emitted chunk has
\* its start year after its end year.
C16_SingleYearChunk ==
    /\ EndpointDone =>
          \A y \in DOMAIN time_periods :
              time_periods[y] >= MAX_OBSERVATIONS =>
                  \E i \in 1..Len(emitted) : emitted[i] = <<y, y>>
    /\ \A i \in 1..Len(emitted) : emitted[i][1] <= emitted[i][2]

\* The dataset holds the file resource of endpoint e.
HasFileOf(e) ==
    \E i \in 1..Len(resources) : resources[i] = FileResource(e, countryname)

\* C17: in merge mode, when the scan of an endpoint has ended after a chunk
\* download that was not found, every chunk of the endpoint's mapping has been
\* asked for, and the endpoint's file resource is in the dataset exactly when
\* some chunk download returned data; in particular a run that has merged data
\* does not end without the file resource.
C17_NotFoundChunkSkipped ==
    /\ (EndpointDone /\ merge_resources /\ failed) =>
          /\ \A i \in DOMAIN ChunksOfMapping(time_periods) :
                \E j \in DOMAIN emitted : emitted[j] = ChunksOfMapping(time_periods)[i]
          /\ HasFileOf(endpoint) <=> df # <<>>
    /\ (pc = "raised" /\ caller = "file" /\ failed /\ df # <<>>
          /\ path \in {"KeyError", "AttributeError"}) => HasFileOf(endpoint)

\* C19: whatever return is taken, the returned dataset and showcase are both
\* None or both present, and a present pair comes with at least one resource
\* and with the year range set.
C19_PairedResult ==
    pc = "done" =>
        \/ result = <<"None", "None">>
        \/ /\ result = <<"Dataset", "Showcase">>
           /\ Len(resources) >= 1
           /\ year_range # <<>>

\* C19 witness: a dataset and its showcase were returned in merge mode.
C19_Witness ==
    /\ pc = "done"
    /\ merge_resources
    /\ result = <<"Dataset", "Showcase">>
    /\ Len(resources) >= 1

\* The endpoint whose indicator a resource carries in its name.
EndpointOf(r) == CHOOSE e \in EndpointIds : Indicator(e) = r.name[1]

\* C11: whatever the key order of the input mapping, both functions ask for
\* the structures in ascending order of endpoint id, get_endpoints_metadata
\* stores its entries in that order, every endpoint has been asked for when a
\* function returns, and in the dataset no resource of a greater endpoint id
\* stands before a resource of a smaller one.
C11_SortedEndpointOrder ==
    /\ \A i, j \in DOMAIN structure_log :
          i < j => EndpointRank(structure_log[i]) < EndpointRank(structure_log[j])
    /\ \A i \in DOMAIN metadata : metadata[i].endpoint = structure_log[i]
    /\ \A i, j \in DOMAIN resources :
          i < j => EndpointRank(EndpointOf(resources[i]))
                      <= EndpointRank(EndpointOf(resources[j]))
    /\ path \in {"metadata", "success", "no_resources"} =>
          Keys(structure_log) = Keys(endpoints)

\* C11 witness: a mapping given with the greater id first has produced a
\* dataset with resources of both endpoints.
C11_Witness ==
    /\ pc = "done"
    /\ path = "success"
    /\ endpoints = <<"EDU_FINANCE", "DEM_ECO">>
    /\ structure_log = <<"DEM_ECO", "EDU_FINANCE">>
    /\ ResourcesOf("DEM_ECO") # <<>>
    /\ ResourcesOf("EDU_FINANCE") # <<>>

\* The template of entry i is the base data URL, one piece per dimension in
\* order ('%s' for REF_AREA, '.' for any other) and a closing '?'.
TemplateShape(i) ==
    LET t == metadata[i].structure_url
        dims == dims_seen[i]
    IN /\ Len(t) = Len(dims) + 2
       /\ t[1] = BaseDataUrl(metadata[i].endpoint)
       /\ \A k \in DOMAIN dims :
             t[k + 1] = (IF dims[k] = "REF_AREA" THEN "%s" ELSE ".")
       /\ t[Len(t)] = "?"

Placeholders(t) == Cardinality({k \in DOMAIN t : t[k] = "%s"})
RefAreas(dims) == Cardinality({k \in DOMAIN dims : dims[k] = "REF_AREA"})

\* C12 as stated: every template has that shape, holds exactly one
\* placeholder, and filling it with an ISO2 code succeeds, so that
\* generate_dataset_and_showcase never fails at filling one.
C12_Original ==
    /\ \A i \in DOMAIN metadata :
          /\ TemplateShape(i)
          /\ Placeholders(metadata[i].structure_url) = 1
          /\ FillTemplate(metadata[i].structure_url, "AR") # <<"TypeError">>
    /\ path # "TypeError"

\* C12 as amended: every template has that shape and holds one placeholder
\* per dimension with id REF_AREA; filling it with an ISO2 code succeeds
\* exactly when exactly one dimension has that id, and then puts the code in
\* the place of that dimension. generate_dataset_and_showcase asks for the
\* structure of an endpoint only when its template holds one placeholder and
\* fails with TypeError only at an endpoint whose template does not.
C12_TemplateShape ==
    /\ \A i \in DOMAIN structure_log :
          structure_log[i] \in DOMAIN templates =>
              Placeholders(templates[structure_log[i]]) = 1
    /\ path = "TypeError" => Placeholders(templates[endpoint]) # 1
    /\ \A i \in DOMAIN metadata :
        LET t == metadata[i].structure_url
            dims == dims_seen[i]
            filled == FillTemplate(t, "AR")
        IN /\ TemplateShape(i)
           /\ Placeholders(t) = RefAreas(dims)
           /\ filled # <<"TypeError">> <=> RefAreas(dims) = 1
           /\ RefAreas(dims) = 1 =>
                 /\ Len(filled) = Len(t)
                 /\ \A k \in DOMAIN dims :
                       filled[k + 1] = (IF dims[k] = "REF_AREA" THEN "AR" ELSE ".")

\* C12 witness: get_endpoints_metadata has returned entries for two endpoints,
\* one built from two dimensions of which the second is REF_AREA.
C12_Witness ==
    /\ pc = "meta_done"
    /\ Len(metadata) = 2
    /\ dims_seen[1] = <<"SEX", "REF_AREA">>

\* split_columns_df has just returned in a run of process_df: table is its
\* result and split_in its argument.
SplitDone == pc = "expand"
\* expand_time_columns_df has returned in a run of process_df.
ExpandDone == pc \in {"filter", "norm_done", "to_csv"}
\* process_df has returned.
ProcessDone == pc \in {"norm_done", "to_csv"}

HasColon(x) == \E i \in DOMAIN x : x[i] = ":"
FirstColon(x) == CHOOSE i \in DOMAIN x : x[i] = ":" /\ \A j \in 1..(i - 1) : x[j] # ":"
BeforeFirstColon(x) == SubSeq(x, 1, FirstColon(x) - 1)
AfterFirstColon(x) == SubSeq(x, FirstColon(x) + 1, Len(x))

\* Cell of row r and column c of table t.
CellAt(t, r, c) == t.rows[r][ColumnIndex(t.columns, c)]

\* C13: for every column split_columns_df splits, a cell with a colon gives
\* the text before its first colon as code and the text after it as label,
\* and a cell without a colon gives the whole cell as label and an empty code.
C13_SplitAtFirstColon ==
    SplitDone =>
        \A c \in Range(SplitColumns(split_in)) : \A r \in DOMAIN split_in.rows :
            LET x == CellAt(split_in, r, c)
            IN IF HasColon(x)
               THEN /\ CellAt(table, r, c) = AfterFirstColon(x)
                    /\ store_code => CellAt(table, r, CodeColumn(c)) = BeforeFirstColon(x)
               ELSE /\ CellAt(table, r, c) = x
                    /\ store_code => CellAt(table, r, CodeColumn(c)) = <<>>

\* Number of year columns of the table process_df was given.
YearCount == Cardinality({i \in DOMAIN given.columns : given.columns[i] \in DigitNames})

\* Cells of year columns of the given table that are neither missing nor
\* made of white space only.
FilledCells ==
    {<<r, i>> \in (DOMAIN given.rows) \X (DOMAIN given.columns) :
        /\ given.columns[i] \in DigitNames
        /\ given.rows[r][i] # NaN
        /\ \E k \in DOMAIN given.rows[r][i] : given.rows[r][i][k] \notin Whitespace}

\* The year columns of the given table, in order, and the two cells
\* expand_time_columns_df adds to a row.
GivenYears == YearColumns(given)
PeriodOf(row) == row[Len(row) - 1]
ValueOf(row) == row[Len(row)]

\* The cell of the given table that row i of the long table is from.
SourceCell(i) == CellAt(given, origin[i][1], GivenYears[origin[i][2]])

\* A cell that is neither missing nor empty after stringify-and-trim.
Filled(x) == x # NaN /\ \E k \in DOMAIN x : x[k] \notin Whitespace

\* C14: for K rows and Y year columns expand_time_columns_df returns exactly
\* K*Y rows, one for every pair of a source row and a year column, each with
\* the name of that year column and the value of that cell; when process_df
\* returns, the table has as many rows as there are year cells neither missing
\* nor empty after stringify-and-trim (at most K*Y), exactly one for each such
\* cell and with its value, and no row with a missing or empty Value remains.
C14_RowCounts ==
    /\ ExpandDone => Len(expanded.rows) = Len(given.rows) * YearCount
    /\ pc = "filter" =>
          /\ table = expanded
          /\ \A r \in DOMAIN given.rows : \A k \in DOMAIN GivenYears :
                Cardinality({i \in DOMAIN expanded.rows : origin[i] = <<r, k>>}) = 1
          /\ \A i \in DOMAIN expanded.rows :
                /\ origin[i][1] \in DOMAIN given.rows
                /\ origin[i][2] \in DOMAIN GivenYears
                /\ ValueOf(expanded.rows[i]) = SourceCell(i)
                /\ PeriodOf(expanded.rows[i]) = <<GivenYears[origin[i][2]]>>
    /\ ProcessDone =>
          /\ Len(table.rows) = Cardinality(FilledCells)
          /\ Len(table.rows) <= Len(given.rows) * YearCount
          /\ Len(origin) = Len(table.rows)
          /\ \A i \in DOMAIN table.rows :
                /\ Filled(ValueOf(table.rows[i]))
                /\ ValueOf(table.rows[i]) = SourceCell(i)
                /\ PeriodOf(table.rows[i]) = <<GivenYears[origin[i][2]]>>
          /\ \A r \in DOMAIN given.rows : \A k \in DOMAIN GivenYears :
                Cardinality({i \in DOMAIN table.rows : origin[i] = <<r, k>>})
                    = (IF Filled(CellAt(given, r, GivenYears[k])) THEN 1 ELSE 0)

\* C14 witness: process_df has returned for two rows and two year columns,
\* of which some cells were dropped and some kept.
C14_Witness ==
    /\ pc = "norm_done"
    /\ Len(given.rows) = 2
    /\ YearCount = 2
    /\ Len(expanded.rows) = 4
    /\ Len(table.rows) \in 1..3

\* C18 as stated: the rows of the long table are ordered by original row
\* first and by year column, in order of discovery, second.
C18_Original ==
    ExpandDone =>
        \A i, j \in DOMAIN origin :
            i < j => \/ origin[i][1] < origin[j][1]
                     \/ origin[i][1] = origin[j][1] /\ origin[i][2] < origin[j][2]

\* C18 as amended: the rows of the long table are ordered by year column, in
\* order of discovery, first and by original row second; the filter of
\* process_df keeps that order.
C18_YearMajorOrder ==
    ExpandDone =>
        \A i, j \in DOMAIN origin :
            i < j => \/ origin[i][2] < origin[j][2]
                     \/ origin[i][2] = origin[j][2] /\ origin[i][1] < origin[j][1]

\* C18 witness: process_df has returned a table that holds rows of two
\* original rows and of two year columns.
C18_Witness ==
    /\ pc = "norm_done"
    /\ Len(origin) >= 3
    /\ \E i, j \in DOMAIN origin : origin[i][1] # origin[j][1]
    /\ \E i, j \in DOMAIN origin : origin[i][2] # origin[j][2]

====
